---- MODULE Spec2Model ----
(***************************************************************************)
(* A model of getmac.get_mac_address (src/getmac/getmac.py): selection of  *)
(* the probe list, the priming ping, the probe loop with its fallback, and *)
(* the normalisation of the winning candidate.                             *)
(*                                                                         *)
(* Text is a sequence of one-character strings.  A Python value that a     *)
(* probe can return is a record [t, s, n]: t = "none" (None), "str" (the   *)
(* text s) or "int" (the integer n).  The text printed by an external      *)
(* command is not modelled; what is modelled is what the code does with    *)
(* it: whether the command could be executed, its exit status, and the     *)
(* capture groups of the regular expression when it matches.               *)
(***************************************************************************)
EXTENDS Integers, Sequences, FiniteSets, TLC

VARIABLES platform, selector, network_request, has_ipv6,
          pc, ip, ip6, arg, funcs, idx, mac, raw, events, warned, result, exc

vars == <<platform, selector, network_request, has_ipv6,
          pc, ip, ip6, arg, funcs, idx, mac, raw, events, warned, result, exc>>

-----------------------------------------------------------------------------
(* Bounds of the model. *)

\* number of distinct hardware addresses the external world can report
NumMacs == 2
\* number of pieces a raw candidate handed to the normalisation is built of
MaxPieces == 6

-----------------------------------------------------------------------------
(* Python values. *)

PyNone == [t |-> "none", s |-> <<>>, n |-> 0]
PyStr(s) == [t |-> "str", s |-> s, n |-> 0]
PyInt(n) == [t |-> "int", s |-> <<>>, n |-> n]

HexDigits == <<"0","1","2","3","4","5","6","7","8","9","a","b","c","d","e","f">>
UpperCase == <<"A","B","C","D","E","F","G","H","I","J","K","L","M",
               "N","O","P","Q","R","S","T","U","V","W","X","Y","Z">>
LowerCase == <<"a","b","c","d","e","f","g","h","i","j","k","l","m",
               "n","o","p","q","r","s","t","u","v","w","x","y","z">>
Whitespace == {" ", "\t", "\n", "\r"}

IsHexChar(c) == \E i \in 1..Len(HexDigits) : HexDigits[i] = c

\* str.lower() on one character
LowerChar(c) ==
    IF \E i \in 1..Len(UpperCase) : UpperCase[i] = c
    THEN LowerCase[CHOOSE i \in 1..Len(UpperCase) : UpperCase[i] = c]
    ELSE c

\* str.lower()
StrLower(s) == [i \in 1..Len(s) |-> LowerChar(s[i])]

\* str.strip(): leading and trailing whitespace removed
RECURSIVE LStrip(_)
LStrip(s) == IF s # <<>> /\ Head(s) \in Whitespace THEN LStrip(Tail(s)) ELSE s
RECURSIVE RStrip(_)
RStrip(s) ==
    IF s # <<>> /\ s[Len(s)] \in Whitespace
    THEN RStrip(SubSeq(s, 1, Len(s) - 1)) ELSE s
StrStrip(s) == RStrip(LStrip(s))

\* str.replace(old, new) for a one-character old; new is a text (possibly empty)
RECURSIVE StrReplace(_, _, _)
StrReplace(s, old, new) ==
    IF s = <<>> THEN <<>>
    ELSE (IF Head(s) = old THEN new ELSE <<Head(s)>>) \o StrReplace(Tail(s), old, new)

\* str.replace(old, '') for a text old: every occurrence removed, left to right
RECURSIVE StrRemove(_, _)
StrRemove(s, old) ==
    IF Len(s) < Len(old) \/ old = <<>> THEN s
    ELSE IF SubSeq(s, 1, Len(old)) = old
         THEN StrRemove(SubSeq(s, Len(old) + 1, Len(s)), old)
         ELSE <<Head(s)>> \o StrRemove(Tail(s), old)

\* the decimal digits of a natural number
RECURSIVE DecStr(_)
DecStr(n) == IF n < 10 THEN <<HexDigits[n + 1]>>
             ELSE DecStr(n \div 10) \o <<HexDigits[(n % 10) + 1]>>

\* the hexadecimal digits of a natural number, without leading zeros
RECURSIVE HexStr(_)
HexStr(n) == IF n < 16 THEN <<HexDigits[n + 1]>>
             ELSE HexStr(n \div 16) \o <<HexDigits[(n % 16) + 1]>>

\* hex(n) of Python: "0x" followed by the digits
PyHex(n) == <<"0", "x">> \o HexStr(n)

\* '%02x' % n
Fmt02x(n) == IF n < 16 THEN <<"0">> \o HexStr(n) ELSE HexStr(n)

\* str(v) of Python on a returned value
Str(v) == IF v.t = "int" THEN DecStr(v.n) ELSE v.s

\* sep.join(parts)
RECURSIVE Join(_, _)
Join(sep, parts) ==
    IF parts = <<>> THEN <<>>
    ELSE IF Len(parts) = 1 THEN parts[1]
    ELSE parts[1] \o sep \o Join(sep, Tail(parts))

\* '%s' % v
FmtS(v) == IF v.t = "none" THEN <<"N","o","n","e">> ELSE Str(v)

\* str.upper() on one character
UpperChar(c) ==
    IF \E i \in 1..Len(LowerCase) : LowerCase[i] = c
    THEN UpperCase[CHOOSE i \in 1..Len(LowerCase) : LowerCase[i] = c]
    ELSE c

-----------------------------------------------------------------------------
(* The external world: what commands, system calls and regular-expression  *)
(* searches can produce.                                                    *)

\* the hardware addresses the world can report, as six bytes each
MacBytes(k) == [i \in 1..6 |-> ((i - 1) * (40 * k + 3) + 7 * (k - 1)) % 256]
Macs == {MacBytes(k) : k \in 1..NumMacs}

\* the texts matching [0-9a-f]{2}(?::[0-9a-f]{2}){5}
ColonMacs == {Join(<<":">>, [i \in 1..6 |-> Fmt02x(b[i])]) : b \in Macs}

\* the texts matching [0-9a-fA-F]{2}(?:-[0-9a-fA-F]{2}){5}
HyphenMacs ==
    LET lower == {Join(<<"-">>, [i \in 1..6 |-> Fmt02x(b[i])]) : b \in Macs}
    IN  lower \cup {[i \in 1..Len(m) |-> UpperChar(m[i])] : m \in lower}

\* the result of re.search: no match, or the capture groups of the match
NoMatch == [matched |-> FALSE, groups |-> <<>>]
Match(g) == [matched |-> TRUE, groups |-> g]

\* an exception raised instead of a value returned
Raised == [t |-> "raise", s |-> <<>>, n |-> 0]

\* one logged event: an external command run (with the value formatted into
\* its arguments and how it ended), or a probe invoked (with what it
\* returned and the capture groups of its successful search)
CmdEvent(command, args, target, out) ==
    [kind |-> "cmd", name |-> command, args |-> args, target |-> target,
     out |-> out, ret |-> PyNone, groups |-> <<>>]
ProbeEvent(func, ret, groups) ==
    [kind |-> "probe", name |-> func, args |-> "", target |-> <<>>,
     out |-> "", ret |-> ret, groups |-> groups]
\* the default-interface lookup called (it is no probe of the list)
LookupEvent(func, ret, groups) ==
    [kind |-> "lookup", name |-> func, args |-> "", target |-> <<>>,
     out |-> "", ret |-> ret, groups |-> groups]

\* _popen: the executable cannot be executed (OSError), it exits with a
\* nonzero status (CalledProcessError), or its output is returned ("ok")
PopenFailures == {"OSError", "CalledProcessError"}
_popen(command, args, target) ==
    {[out |-> o, event |-> CmdEvent(command, args, target, o)]
        : o \in {"ok"} \cup PopenFailures}

\* _search: the group at group_index of the match, None without a match
_search(m, group_index) ==
    IF m.matched THEN PyStr(m.groups[group_index + 1]) ELSE PyNone

\* what a call did: the value returned (or Raised), the commands it ran and
\* the capture groups of its successful search
Did(ret, cmds, groups) == [ret |-> ret, cmds |-> cmds, groups |-> groups]

\* _search(regex, _popen(...), group_index): the exception of _popen
\* propagates; otherwise the search is applied to the output
SearchOutput(p, matches, group_index) ==
    IF p.out # "ok" THEN {Did(Raised, <<p.event>>, <<>>)}
    ELSE {Did(_search(m, group_index), <<p.event>>, m.groups) : m \in matches}

TxtHWaddr == <<"H","W","a","d","d","r">>
TxtEther == <<"E","t","h","e","r">>

-----------------------------------------------------------------------------
(* The probes.  Each yields the set of things the call can do.              *)

_windows_get_remote_mac(host) ==
    LET macaddr(b) ==
            LET piece(intval) ==
                    LET replacestr == IF intval > 15 THEN <<"0", "x">> ELSE <<"x">>
                    IN  StrRemove(PyHex(intval), replacestr)
            IN  Join(<<>>, [i \in 1..6 |-> piece(b[i])])
    IN  {Did(Raised, <<>>, <<>>)}
        \cup {Did(PyStr(macaddr(b)), <<>>, <<>>) : b \in Macs}

_windows_ipconfig_by_interface(interface) ==
    UNION {SearchOutput(p, {NoMatch} \cup {Match(<<m>>) : m \in HyphenMacs}, 0)
            : p \in _popen("ipconfig", "/all", <<>>)}

_unix_fcntl_by_interface(interface) ==
    {Did(Raised, <<>>, <<>>)}
    \cup {Did(PyStr(Join(<<":">>, [i \in 1..6 |-> Fmt02x(b[i])])), <<>>, <<>>)
            : b \in Macs}

\* the arguments ifconfig is tried with, in order
IfconfigArgs == <<"", "-a", "-av", "-v">>

_unix_ifconfig_by_interface(interface) ==
    LET matches == {Match(<<kw, m>>) : kw \in {TxtHWaddr, TxtEther}, m \in ColonMacs}
        before(k) == [j \in 1..(k - 1) |-> CmdEvent("ifconfig", IfconfigArgs[j], <<>>, "ok")]
        \* the k-th run is the first whose output matches, or that fails
        last(k) == UNION {SearchOutput(p, matches, 0)
                            : p \in _popen("ifconfig", IfconfigArgs[k], <<>>)}
    \* a matched group 0 (the keyword) is never empty, so `if mac` holds
    IN  UNION {{Did(d.ret, before(k) \o d.cmds, d.groups) : d \in last(k)}
                : k \in 1..Len(IfconfigArgs)}
        \cup {Did(PyNone, before(Len(IfconfigArgs) + 1), <<>>)}

_unix_interface_ip_command(interface) ==
    UNION {SearchOutput(p, {NoMatch} \cup {Match(<<m>>) : m \in ColonMacs}, 0)
            : p \in _popen("ip", "link", <<>>)}

_unix_ip_ip_command(ip_) == {Did(PyNone, <<>>, <<>>)}

_unix_ip_arp_command(ip_) ==
    UNION {SearchOutput(p, {NoMatch} \cup {Match(<<m>>) : m \in ColonMacs}, 0)
            : p \in _popen("arp", "-an", <<>>)}

_unix_ip_cat_arp(ip_) ==
    UNION {SearchOutput(p, {NoMatch} \cup {Match(<<m>>) : m \in ColonMacs}, 0)
            : p \in _popen("cat", "/proc/net/arp", <<>>)}

\* _find_mac iterates over the characters of the output: every "line" is one
\* character, so words is that character lowercased (or nothing for a white
\* space), and words[get_index(i)] with get_index = lambda i: 0 is the same
\* character.  The first character equal to an identifier decides.
_find_mac(command, args, hw_identifiers) ==
    LET decides(c) ==   \* what the first character c found among the identifiers does
            LET word == StrReplace(<<c>>, ":", <<>>)
            IN  IF word = <<>> \/ ~IsHexChar(word[1]) THEN {Raised}   \* int(word, 16) fails
                ELSE LET value == (CHOOSE i \in 1..Len(HexDigits) : HexDigits[i] = word[1]) - 1
                     IN  IF value # 0 THEN {PyInt(value)} ELSE {PyNone}
        found == {c \in hw_identifiers : c \notin Whitespace /\ LowerChar(c) = c}
    IN  UNION {IF p.out # "ok" THEN {Did(Raised, <<p.event>>, <<>>)}
               ELSE {Did(PyNone, <<p.event>>, <<>>)}
                    \cup {Did(r, <<p.event>>, <<>>) : r \in UNION {decides(c) : c \in found}}
                : p \in _popen(command, args, <<>>)}

_unix_lanscan_interface(interface) ==
    _find_mac("lanscan", "-ai", IF Len(interface) = 1 THEN {interface[1]} ELSE {})

_unix_netstat_by_interface(interface) ==
    UNION {SearchOutput(p, {NoMatch} \cup {Match(<<TxtHWaddr, m>>) : m \in ColonMacs}, 1)
            : p \in _popen("netstat", "-iae", <<>>)}

\* the interface names "dev ([0-9a-z]*)" can capture
TxtWlan0 == <<"w","l","a","n","0">>
_unix_default_interface_ip_command ==
    UNION {SearchOutput(p, {NoMatch} \cup {Match(<<m>>) : m \in {TxtWlan0, <<>>}}, 0)
            : p \in _popen("ip", "route get 0.0.0.0", <<>>)}

\* func(arg)
Call(func, a) ==
    CASE func = "_windows_get_remote_mac" -> _windows_get_remote_mac(a)
      [] func = "_windows_ipconfig_by_interface" -> _windows_ipconfig_by_interface(a)
      [] func = "_unix_fcntl_by_interface" -> _unix_fcntl_by_interface(a)
      [] func = "_unix_ifconfig_by_interface" -> _unix_ifconfig_by_interface(a)
      [] func = "_unix_interface_ip_command" -> _unix_interface_ip_command(a)
      [] func = "_unix_ip_ip_command" -> _unix_ip_ip_command(a)
      [] func = "_unix_ip_arp_command" -> _unix_ip_arp_command(a)
      [] func = "_unix_ip_cat_arp" -> _unix_ip_cat_arp(a)
      [] func = "_unix_lanscan_interface" -> _unix_lanscan_interface(a)
      [] func = "_unix_netstat_by_interface" -> _unix_netstat_by_interface(a)

-----------------------------------------------------------------------------
(* get_mac_address.                                                         *)

Txt_eth0 == <<"e","t","h","0">>
Txt_Ethernet1 == <<"E","t","h","e","r","n","e","t"," ","1">>

\* ProbeList with the first two remote probes in the other order, and the
\* socket ioctl tried before netstat
ProbeListReordered(plat, branch) ==
    CASE branch = "ip" ->
            IF plat = "win32" THEN <<"_windows_get_remote_mac">>
            ELSE <<"_unix_ip_cat_arp", "_unix_ip_arp_command", "_unix_ip_ip_command">>
      [] branch = "ip6" -> <<>>
      [] branch = "interface" ->
            IF plat = "win32" THEN <<"_windows_ipconfig_by_interface">>
            ELSE <<"_unix_ifconfig_by_interface", "_unix_interface_ip_command",
                   "_unix_fcntl_by_interface", "_unix_netstat_by_interface",
                   "_unix_lanscan_interface">>

\* funcs, per platform and branch of the selector
ProbeList(plat, branch) ==
    CASE branch = "ip" ->
            IF plat = "win32" THEN <<"_windows_get_remote_mac">>
            ELSE <<"_unix_ip_arp_command", "_unix_ip_cat_arp", "_unix_ip_ip_command">>
      [] branch = "ip6" -> <<>>
      [] branch = "interface" ->
            IF plat = "win32" THEN <<"_windows_ipconfig_by_interface">>
            ELSE <<"_unix_ifconfig_by_interface", "_unix_interface_ip_command",
                   "_unix_netstat_by_interface", "_unix_fcntl_by_interface",
                   "_unix_lanscan_interface">>

\* str(mac).lower().strip().replace('-', ':').replace(' ', '')
Clean(m) ==
    StrReplace(StrReplace(StrStrip(StrLower(Str(m))), "-", <<":">>), " ", <<>>)

\* ':'.join(mac[i:i + 2] for i in range(0, len(mac), 2)) when len(mac) == 12
InsertColons(s) ==
    Join(<<":">>, [k \in 1..((Len(s) + 1) \div 2) |->
                        SubSeq(s, 2 * k - 1, IF 2 * k <= Len(s) THEN 2 * k ELSE Len(s))])
FixColons(s) == IF Len(s) = 12 THEN InsertColons(s) ELSE s

\* LengthCheck without the check
LengthCheckSkipped(s) == PyStr(s)

\* "if len(mac) != 17: mac = None"
LengthCheck(s) == IF Len(s) # 17 THEN PyNone ELSE PyStr(s)

\* the three steps of lines 130-139 on a candidate that is not None
Normalized(m) == LengthCheck(FixColons(Clean(m)))

\* LoopBreaks with the break forgotten
LoopNeverBreaks(m) == FALSE

\* LoopBreaks deciding after the normalisation: only a candidate that
\* normalises to an address ends the loop
LoopBreaksIfValid(m) == m.t # "none" /\ Normalized(m).t # "none"

\* "if mac is not None: break"
LoopBreaks(m) == m.t # "none"

\* the selectors a call is made with: at most one of the four is given
TxtIp == <<"1","0",".","0",".","0",".","7">>
TxtIp6 == <<"f","e","8","0",":",":","1">>
TxtHost == <<"r","o","u","t","e","r">>
Selectors ==
    {[kind |-> "none", val |-> <<>>],
     [kind |-> "ip", val |-> TxtIp],
     [kind |-> "ip6", val |-> TxtIp6],
     [kind |-> "hostname", val |-> TxtHost]}
    \cup {[kind |-> "interface", val |-> v] : v \in {Txt_eth0, <<"a">>, <<"z">>}}

interface == IF selector.kind = "interface" THEN PyStr(selector.val) ELSE PyNone
hostname == IF selector.kind = "hostname" THEN PyStr(selector.val) ELSE PyNone

Init ==
    /\ platform \in {"win32", "linux"}
    /\ selector \in Selectors
    /\ network_request \in BOOLEAN
    /\ has_ipv6 \in BOOLEAN
    /\ pc = "hostname"
    /\ ip = IF selector.kind = "ip" THEN PyStr(selector.val) ELSE PyNone
    /\ ip6 = IF selector.kind = "ip6" THEN PyStr(selector.val) ELSE PyNone
    /\ arg = PyNone
    /\ funcs = <<>>
    /\ idx = 1
    /\ mac = PyNone
    /\ raw = PyNone
    /\ events = <<>>
    /\ warned = FALSE
    /\ result = PyNone
    /\ exc = ""

\* an exception leaves get_mac_address
Raise(e, evs) ==
    /\ pc' = "raised"
    /\ exc' = e
    /\ events' = events \o evs

\* lines 53-54: socket.gethostbyname(hostname) resolves or raises
ResolveHostname ==
    /\ pc = "hostname"
    /\ IF hostname.t = "none"
       THEN /\ pc' = "prime"
            /\ UNCHANGED <<ip, exc>>
       ELSE \E r \in {PyStr(TxtIp), Raised} :
                IF r = Raised
                THEN /\ pc' = "raised"
                     /\ exc' = "gaierror"
                     /\ UNCHANGED ip
                ELSE /\ pc' = "prime"
                     /\ ip' = r
                     /\ UNCHANGED exc
    /\ UNCHANGED <<platform, selector, network_request, has_ipv6, ip6, arg, funcs,
                   idx, mac, raw, events, warned, result>>

\* lines 59-66: the priming ping; _popen is not guarded
PrimeCommands ==
    IF platform = "win32"
    THEN \* "-n 1 %s" % ip if ip is not None else ip6
         IF ip.t # "none" THEN _popen("ping", "-n 1 %s", FmtS(ip))
         ELSE IF ip6.t # "none" THEN _popen("ping", "%s", Str(ip6))
         \* shlex.split(None) raises ValueError, or (older Pythons) reads the
         \* arguments from standard input
         ELSE {[out |-> "ValueError", event |-> CmdEvent("shlex.split", "", <<>>, "ValueError")]}
              \cup _popen("ping", "<stdin>", <<>>)
    ELSE IF ip.t # "none" THEN _popen("ping", "-c 1 %s", FmtS(ip))
         ELSE _popen("ping6", "-c 1 %s", FmtS(ip6))

Prime ==
    /\ pc = "prime"
    /\ IF ~network_request
       THEN /\ pc' = "select"
            /\ UNCHANGED <<events, exc>>
       ELSE \E p \in PrimeCommands :
                IF p.out # "ok"
                THEN Raise(p.out, <<p.event>>)
                ELSE /\ pc' = "select"
                     /\ events' = events \o <<p.event>>
                     /\ UNCHANGED exc
    /\ UNCHANGED <<platform, selector, network_request, has_ipv6, ip, ip6, arg, funcs,
                   idx, mac, raw, warned, result>>

\* lines 69-75: an IPv4 address (given, or resolved from the hostname)
SelectIp ==
    /\ pc = "select"
    /\ ip.t # "none"
    /\ arg' = ip
    /\ funcs' = ProbeList(platform, "ip")
    /\ pc' = "loop"
    /\ UNCHANGED <<platform, selector, network_request, has_ipv6, ip, ip6,
                   idx, mac, raw, events, warned, result, exc>>

\* lines 79-85: an IPv6 address
SelectIp6 ==
    /\ pc = "select"
    /\ ip.t = "none"
    /\ ip6.t # "none"
    /\ IF ~has_ipv6
       THEN /\ warned' = TRUE
            /\ result' = PyNone
            /\ pc' = "done"
            /\ UNCHANGED <<arg, funcs>>
       ELSE /\ arg' = ip6
            /\ funcs' = ProbeList(platform, "ip6")
            /\ pc' = "loop"
            /\ UNCHANGED <<warned, result>>
    /\ UNCHANGED <<platform, selector, network_request, has_ipv6, ip, ip6,
                   idx, mac, raw, events, exc>>

\* lines 88-108: a local interface, given or the default one
SelectInterface ==
    /\ pc = "select"
    /\ ip.t = "none"
    /\ ip6.t = "none"
    /\ IF interface.t # "none"
       THEN /\ arg' = PyStr(Str(interface))
            /\ funcs' = ProbeList(platform, "interface")
            /\ pc' = "loop"
            /\ UNCHANGED <<events, exc>>
       ELSE IF platform = "win32"
       THEN /\ arg' = PyStr(Txt_Ethernet1)
            /\ funcs' = ProbeList(platform, "interface")
            /\ pc' = "loop"
            /\ UNCHANGED <<events, exc>>
       ELSE \E d \in _unix_default_interface_ip_command :
                IF d.ret = Raised
                THEN /\ Raise(d.cmds[Len(d.cmds)].out,
                              <<LookupEvent("_unix_default_interface_ip_command",
                                            d.ret, d.groups)>> \o d.cmds)
                     /\ UNCHANGED <<arg, funcs>>
                ELSE /\ arg' = IF d.ret.t = "none" THEN PyStr(Txt_eth0) ELSE d.ret
                     /\ funcs' = ProbeList(platform, "interface")
                     /\ pc' = "loop"
                     /\ events' = events
                            \o <<LookupEvent("_unix_default_interface_ip_command",
                                             d.ret, d.groups)>> \o d.cmds
                     /\ UNCHANGED exc
    /\ UNCHANGED <<platform, selector, network_request, has_ipv6, ip, ip6,
                   idx, mac, raw, warned, result>>

\* lines 113-123: one iteration of "for func in funcs"
InvokeProbe ==
    /\ pc = "loop"
    /\ idx <= Len(funcs)
    /\ \E d \in Call(funcs[idx], arg.s) :
        /\ events' = events \o <<ProbeEvent(funcs[idx], d.ret, d.groups)>> \o d.cmds
        /\ IF d.ret = Raised
           THEN \* except Exception: continue
                /\ idx' = idx + 1
                /\ UNCHANGED <<mac, raw, pc>>
           ELSE /\ mac' = d.ret
                /\ IF LoopBreaks(d.ret)
                   THEN /\ pc' = "clean"
                        /\ raw' = d.ret
                        /\ UNCHANGED idx
                   ELSE /\ idx' = idx + 1
                        /\ UNCHANGED <<raw, pc>>
    /\ UNCHANGED <<platform, selector, network_request, has_ipv6, ip, ip6, arg, funcs,
                   warned, result, exc>>

\* the for loop ends with the list exhausted
LoopExhausted ==
    /\ pc = "loop"
    /\ idx > Len(funcs)
    /\ pc' = "clean"
    /\ raw' = mac
    /\ UNCHANGED <<platform, selector, network_request, has_ipv6, ip, ip6, arg, funcs,
                   idx, mac, events, warned, result, exc>>

\* lines 126-130
CleanStep ==
    /\ pc = "clean"
    /\ IF mac.t = "none"
       THEN /\ pc' = "return"
            /\ UNCHANGED mac
       ELSE /\ mac' = PyStr(Clean(mac))
            /\ pc' = "fix"
    /\ UNCHANGED <<platform, selector, network_request, has_ipv6, ip, ip6, arg, funcs,
                   idx, raw, events, warned, result, exc>>

\* lines 133-135
FixColonsStep ==
    /\ pc = "fix"
    /\ mac' = PyStr(FixColons(mac.s))
    /\ pc' = "check"
    /\ UNCHANGED <<platform, selector, network_request, has_ipv6, ip, ip6, arg, funcs,
                   idx, raw, events, warned, result, exc>>

\* lines 138-139
LengthCheckStep ==
    /\ pc = "check"
    /\ mac' = LengthCheck(mac.s)
    /\ pc' = "return"
    /\ UNCHANGED <<platform, selector, network_request, has_ipv6, ip, ip6, arg, funcs,
                   idx, raw, events, warned, result, exc>>

\* line 141
Return ==
    /\ pc = "return"
    /\ result' = mac
    /\ pc' = "done"
    /\ UNCHANGED <<platform, selector, network_request, has_ipv6, ip, ip6, arg, funcs,
                   idx, mac, raw, events, warned, exc>>

Next ==
    \/ ResolveHostname
    \/ Prime
    \/ SelectIp
    \/ SelectIp6
    \/ SelectInterface
    \/ InvokeProbe
    \/ LoopExhausted
    \/ CleanStep
    \/ FixColonsStep
    \/ LengthCheckStep
    \/ Return

Spec == Init /\ [][Next]_vars

-----------------------------------------------------------------------------
(* The normalisation alone, applied to every raw candidate built of at     *)
(* most MaxPieces pieces.                                                   *)

Pieces == {<<"A","1","-">>, <<"b","2">>, <<":","c">>, <<" ","G","0">>}
RawCandidates ==
    {Join(<<>>, f) : f \in UNION {[1..n -> Pieces] : n \in 0..MaxPieces}}

InitNorm ==
    /\ platform = "linux"
    /\ selector = [kind |-> "interface", val |-> Txt_eth0]
    /\ network_request = FALSE
    /\ has_ipv6 = TRUE
    /\ pc = "clean"
    /\ ip = PyNone
    /\ ip6 = PyNone
    /\ arg = PyStr(Txt_eth0)
    /\ funcs = <<>>
    /\ idx = 1
    /\ mac \in {PyStr(c) : c \in RawCandidates}
    /\ raw = mac
    /\ events = <<>>
    /\ warned = FALSE
    /\ result = PyNone
    /\ exc = ""

NextNorm ==
    \/ CleanStep
    \/ FixColonsStep
    \/ LengthCheckStep
    \/ Return

SpecNorm == InitNorm /\ [][NextNorm]_vars

-----------------------------------------------------------------------------
(* Properties.                                                              *)

\* the probes invoked so far, in order
ProbeCalls == SelectSeq(events, LAMBDA e : e.kind = "probe")
Invoked == [i \in 1..Len(ProbeCalls) |-> ProbeCalls[i].name]

IsPrefix(a, b) == Len(a) <= Len(b) /\ SubSeq(b, 1, Len(a)) = a

\* six groups of two lowercase hex digits joined by colons
IsCanonical(s) ==
    /\ Len(s) = 17
    /\ \A i \in 1..17 : IF i % 3 = 0 THEN s[i] = ":" ELSE IsHexChar(s[i])

Selected == pc \in {"loop", "clean", "fix", "check", "return", "done"} /\ ~warned

\* C1: with an interface, an IPv4 address, an IPv6 address or no selector,
\* get_mac_address never raises to its caller, whatever the priming ping,
\* the default-interface lookup and the probes do; it returns an address or
\* None, and None when every probe failed.
C1_NeverRaises ==
    selector.kind \in {"interface", "ip", "ip6", "none"} =>
        /\ pc # "raised"
        /\ pc = "done" => result.t \in {"none", "str"}
        /\ (pc = "done" /\ \A i \in 1..Len(ProbeCalls) :
                                ProbeCalls[i].ret.t \in {"raise", "none"})
                => result = PyNone

\* C2: every value returned is None or a canonical address: 17 characters,
\* six groups of two lowercase hex digits joined by colons.
C2_ReturnedCanonical ==
    pc = "done" => \/ result = PyNone
                   \/ result.t = "str" /\ IsCanonical(result.s)

\* a call returned an address that the normalisation had to rewrite
C2_Witness ==
    /\ pc = "done"
    /\ result.t = "str"
    /\ raw.t = "str"
    /\ raw.s # result.s

\* C3: the probes are invoked in the order of the list, each at most once; a
\* probe that raises is treated like one that returns None; nothing is
\* invoked after the first probe that returns a candidate, and the value
\* returned is the normalisation of that candidate.
C3_OrderedFallback ==
    LET n == Len(ProbeCalls)
        won == n > 0 /\ ProbeCalls[n].ret.t \notin {"raise", "none"}
    IN  /\ IsPrefix(Invoked, funcs)
        /\ \A i, j \in 1..n : Invoked[i] = Invoked[j] => i = j
        /\ \A i \in 1..(n - 1) : ProbeCalls[i].ret.t \in {"raise", "none"}
        /\ pc = "loop" => mac = PyNone /\ idx = n + 1
        /\ (pc = "done" /\ won) => result = Normalized(ProbeCalls[n].ret)
        /\ (pc = "done" /\ ~won) => result = PyNone /\ Invoked = funcs

\* probe 1 raised, probe 2 returned a candidate, probe 3 was never invoked
C3_Witness ==
    /\ pc = "done"
    /\ Len(funcs) = 3
    /\ Len(ProbeCalls) = 2
    /\ ProbeCalls[1].ret = Raised
    /\ ProbeCalls[2].ret.t = "str"
    /\ result = Normalized(ProbeCalls[2].ret)
    /\ result.t = "str"

\* ping or ping6 processes launched, by their position among the events
PingsLaunched ==
    {i \in 1..Len(events) : /\ events[i].kind = "cmd"
                            /\ events[i].name \in {"ping", "ping6"}
                            /\ events[i].out # "OSError"}

\* C4: a priming command is launched only if network_request is enabled and
\* the selector resolves to an IP address; never with an interface name or
\* without a selector; at most once, and before any probe.
C4_PrimingOnlyForIp ==
    /\ PingsLaunched # {} =>
            network_request /\ selector.kind \in {"ip", "ip6", "hostname"}
    /\ Cardinality(PingsLaunched) <= 1
    /\ \A i \in PingsLaunched : \A j \in 1..i : events[j].kind # "probe"

\* C5: the probe list depends on the platform and the selector type only;
\* the lists are those below, in that order, and no probe outside the list
\* selected is invoked.
C5_ProbeListBySelector ==
    LET expected ==
            IF selector.kind = "ip"
            THEN IF platform = "win32" THEN <<"_windows_get_remote_mac">>
                 ELSE <<"_unix_ip_arp_command", "_unix_ip_cat_arp",
                        "_unix_ip_ip_command">>
            ELSE IF platform = "win32" THEN <<"_windows_ipconfig_by_interface">>
                 ELSE <<"_unix_ifconfig_by_interface", "_unix_interface_ip_command",
                        "_unix_netstat_by_interface", "_unix_fcntl_by_interface",
                        "_unix_lanscan_interface">>
    IN  selector.kind \in {"ip", "interface", "none"} =>
            /\ Selected => funcs = expected
            /\ IsPrefix(Invoked, expected)

\* every probe of the Unix interface list was invoked, in the list's order
C5_Witness ==
    /\ pc = "done"
    /\ platform = "linux"
    /\ selector.kind = "interface"
    /\ Len(Invoked) = 5
    /\ Invoked = funcs

\* C6: with an IPv6 selector on a host without IPv6 support, the call
\* returns None after a warning, raises nothing and invokes no probe,
\* whatever network_request is and whatever any external command does.
C6_NoIpv6IsAbsence ==
    (selector.kind = "ip6" /\ ~has_ipv6) =>
        /\ pc # "raised"
        /\ Invoked = <<>>
        /\ pc = "done" => result = PyNone /\ warned

LookupFailed ==
    \E i \in 1..Len(events) : /\ events[i].kind = "lookup"
                              /\ events[i].ret.t \in {"raise", "none"}

\* C8: on a Unix-like platform without a selector, when the default-route
\* lookup fails in any way the target falls back to eth0 and the Unix
\* interface list is run; the failure never ends the call.
C8_LookupFallsBack ==
    (platform # "win32" /\ selector.kind = "none" /\ LookupFailed) =>
        /\ pc # "raised"
        /\ arg = PyStr(Txt_eth0)
        /\ funcs = <<"_unix_ifconfig_by_interface", "_unix_interface_ip_command",
                     "_unix_netstat_by_interface", "_unix_fcntl_by_interface",
                     "_unix_lanscan_interface">>

\* C9: when the output of ifconfig matches (interface, HWaddr or Ether, a
\* hardware address), the candidate of the ifconfig probe is the address
\* group, and get_mac_address returns that address.
C9_IfconfigReturnsAddress ==
    \A i \in 1..Len(events) :
        (/\ events[i].kind = "probe"
         /\ events[i].name = "_unix_ifconfig_by_interface"
         /\ events[i].groups # <<>>) =>
            /\ events[i].ret = PyStr(events[i].groups[2])
            /\ pc = "done" => result = PyStr(events[i].groups[2])

\* C10: the fallback is decided before the normalisation: after a probe
\* returned a candidate that the normalisation rejects, no later probe is
\* invoked and None is returned.
C10_NoFallbackAfterRejected ==
    \A i \in 1..Len(ProbeCalls) :
        (/\ ProbeCalls[i].ret.t \in {"str", "int"}
         /\ Len(FixColons(Clean(ProbeCalls[i].ret))) # 17) =>
            /\ i = Len(ProbeCalls)
            /\ pc # "loop"
            /\ pc = "done" => result = PyNone

\* the first probe of five returned a candidate that is rejected; the call
\* returned None with the other four never invoked
C10_Witness ==
    /\ pc = "done"
    /\ Len(funcs) = 5
    /\ Len(ProbeCalls) = 1
    /\ ProbeCalls[1].ret.t = "str"
    /\ Len(FixColons(Clean(ProbeCalls[1].ret))) # 17
    /\ result = PyNone

====
